---- MODULE Spec2Model ----
(***************************************************************************)
(* Model of pg-db-sync: the sync run of main.py (sync_data), the           *)
(* orchestrator of sync_manager.py (SyncManager) and the database helper   *)
(* of utils/database.py (DatabaseUtility), over two PostgreSQL sessions.   *)
(***************************************************************************)
EXTENDS Integers, Sequences, FiniteSets, TLC

\* ------------------------------------------------------------------ bounds
MaxEntries == 2   \* entries of the "sync.tables" list of the configuration
MaxRows == 2      \* rows of a source table / of a data argument
MaxFaults == 1    \* statements per run that the environment makes fail
MaxCalls == 3     \* calls of the DatabaseUtility harness
MaxRuns == 2      \* runs of sync_data, one after the other or overlapping
MaxTables == 2    \* tables a listing returns to an overlapping run

\* ------------------------------------------------------------------ values
Null == "NULL"          \* Python None
Wildcard == "*"
Names == {"a", "b", "c"}
NameOrder == <<"a", "b", "c">>
Sides == {"src", "tgt"}

UsersCols == << [name |-> "id", type |-> "integer"], [name |-> "name", type |-> "text"] >>
IdVals == <<"1", "2", "3", "4">>
NameVals == <<"A", "B", "C", "D">>
UsersRows(n) == [i \in 1..n |-> << IdVals[i], NameVals[i] >>]

Range(s) == {s[i] : i \in 1..Len(s)}
ColNames(cols) == [i \in 1..Len(cols) |-> cols[i].name]
IndexOf(s, x) == IF \E i \in 1..Len(s) : s[i] = x
                 THEN CHOOSE i \in 1..Len(s) : s[i] = x /\ \A j \in 1..(i-1) : s[j] # x
                 ELSE 0

\* A relation of a database: a table, or a materialized view (which the
\* catalog pg_attribute describes and a select reads, and which pg_tables and
\* information_schema do not show); an absent one is the record NoTable.
NoTable == [exists |-> FALSE, kind |-> "table", schema |-> "public", cols |-> <<>>, rows |-> <<>>]
Table(schema, cols, rows) ==
    [exists |-> TRUE, kind |-> "table", schema |-> schema, cols |-> cols, rows |-> rows]
MatView(schema, cols, rows) ==
    [exists |-> TRUE, kind |-> "matview", schema |-> schema, cols |-> cols, rows |-> rows]
IsTable(t) == t.exists /\ t.kind = "table"
EmptyDb == [t \in Names |-> NoTable]

\* A fetched row (psycopg2 DictRow): the select's column names and the values.
Row(keys, vals) == [keys |-> keys, vals |-> vals]
RowGet(row, col) == IF IndexOf(row.keys, col) = 0 THEN Null ELSE row.vals[IndexOf(row.keys, col)]
RowHas(row, col) == IndexOf(row.keys, col) # 0

\* ------------------------------------------------------------------ statements
\* A statement: the first word as the source text has it (lead = "ws" when the
\* text starts with a newline and indentation), what it asks, and its target.
Stmt(verb, lead, tag, table, cols, guard) ==
    [verb |-> verb, lead |-> lead, tag |-> tag, table |-> table, cols |-> cols, guard |-> guard]

\* The tables of db in the order the session lists them.
InPublic(t) == t.schema = "public"

TablesWhere(db, anySchema) ==
    LET pick(n) == IsTable(db[n]) /\ (anySchema \/ InPublic(db[n]))
    IN  SelectSeq(NameOrder, pick)

\* ------------------------------------------------------------------ session
\* What the PostgreSQL session answers to one statement: ok, the database
\* after it, the rows of its result and the column names of its description.
Answer(ok, db, rows, desc) == [ok |-> ok, db |-> db, rows |-> rows, desc |-> desc]

NameRows(key, names) == [i \in 1..Len(names) |-> Row(<<key>>, <<names[i]>>)]
ColumnRows(cols) ==
    [i \in 1..Len(cols) |-> Row(<<"column_name", "data_type">>, <<cols[i].name, cols[i].type>>)]

InsertedTuple(t, names, params) ==
    [i \in 1..Len(t.cols) |->
        IF IndexOf(names, t.cols[i].name) = 0 THEN Null
        ELSE params[IndexOf(names, t.cols[i].name)]]

PgExec(db, q, params) ==
    LET t == db[q.table] IN
    CASE q.tag = "CREATE" ->
            IF t.exists
            THEN Answer(q.guard, db, <<>>, <<>>)
            ELSE Answer(TRUE, [db EXCEPT ![q.table] = Table("public", q.cols, <<>>)], <<>>, <<>>)
      [] q.tag = "SELECT *" ->
            IF t.exists
            THEN Answer(TRUE, db,
                        [i \in 1..Len(t.rows) |-> Row(ColNames(t.cols), t.rows[i])],
                        ColNames(t.cols))
            ELSE Answer(FALSE, db, <<>>, <<>>)
      [] q.tag = "LIMIT 0" ->
            IF t.exists THEN Answer(TRUE, db, <<>>, ColNames(t.cols))
            ELSE Answer(FALSE, db, <<>>, <<>>)
      [] q.tag = "INSERT" ->
            IF IsTable(t) /\ q.cols # <<>> /\ Range(q.cols) \subseteq Range(ColNames(t.cols))
            THEN Answer(TRUE,
                        [db EXCEPT ![q.table].rows = Append(@, InsertedTuple(t, q.cols, params))],
                        <<>>, <<>>)
            ELSE Answer(FALSE, db, <<>>, <<>>)
      [] q.tag = "pg_tables" ->
            Answer(TRUE, db, NameRows("tablename", TablesWhere(db, FALSE)), <<"tablename">>)
      [] q.tag = "visible" ->
            Answer(TRUE, db, NameRows("table_name", TablesWhere(db, TRUE)), <<"table_name">>)
      [] q.tag = "owned" ->
            Answer(TRUE, db, NameRows("tablename", TablesWhere(db, TRUE)), <<"tablename">>)
      [] q.tag = "attributes" ->
            Answer(TRUE, db,
                   IF t.exists /\ t.schema = params[1] THEN ColumnRows(t.cols) ELSE <<>>,
                   <<"column_name", "data_type">>)
      [] q.tag = "info_columns" ->
            Answer(TRUE, db,
                   IF IsTable(t) /\ t.schema = params[1] THEN ColumnRows(t.cols) ELSE <<>>,
                   <<"column_name", "data_type">>)
      [] q.tag = "info_type" ->
            Answer(TRUE, db,
                   IF IsTable(t) /\ IndexOf(ColNames(t.cols), params[2]) # 0
                   THEN << Row(<<"data_type">>, << t.cols[IndexOf(ColNames(t.cols), params[2])].type >>) >>
                   ELSE <<>>,
                   <<"data_type">>)
      [] OTHER -> Answer(TRUE, db, << Row(<<"setting">>, <<"public">>) >>, <<"setting">>)

\* ------------------------------------------------------------------ handle
\* self.connection: "none" (None), "open", or "closed" (a closed connection
\* object, still truthy); aborted: the session's transaction is in the failed
\* state, in which it refuses every statement until a rollback.
Handle(st, aborted) == [st |-> st, aborted |-> aborted]
NewHandle == Handle("none", FALSE)

Event(op, side, table, ok) == [op |-> op, side |-> side, table |-> table, ok |-> ok]

\* The outcome of a call: whether it raised, its value, the database and the
\* handle after it, the statements it sent and the errors it logged.
Outcome(raised, value, db, h, ev, errs) ==
    [raised |-> raised, value |-> value, db |-> db, h |-> h, ev |-> ev, errs |-> errs]

Count(b) == IF b THEN 1 ELSE 0

connect(h, ok) == IF ok THEN Handle("open", FALSE) ELSE h

\* A disconnect that closes nothing.
disconnect_Skipped(h) == h

disconnect(h) == IF h.st # "none" THEN Handle("closed", h.aborted) ELSE h

\* query.lower().startswith("select")
StartsWithSelect(q) == q.lead = "" /\ q.verb = "SELECT"

\* _execute of execute_query, a being the session's answer to the statement:
\* rollback and re-raise on failure, the rows of a read query, a commit and
\* an empty list for anything else.
Execute(self, h, db, q, fail, a) ==
    IF fail \/ h.aborted \/ ~a.ok
    THEN Outcome(TRUE, <<>>, db, Handle("open", FALSE),
                 << Event(q.tag, self, q.table, FALSE), Event("ROLLBACK", self, q.table, TRUE) >>, 1)
    ELSE IF StartsWithSelect(q)
    THEN Outcome(FALSE, a.rows, db, h, << Event(q.tag, self, q.table, TRUE) >>, 0)
    ELSE Outcome(FALSE, <<>>, a.db, h,
                 << Event(q.tag, self, q.table, TRUE), Event("COMMIT", self, q.table, TRUE) >>, 0)

execute_query(self, h, db, q, params, fail) ==
    IF h.st # "open"
    THEN Outcome(TRUE, <<>>, db, h, <<>>, 0)
    ELSE Execute(self, h, db, q, fail, PgExec(db, q, params))

\* A statement sent on the raw connection (conn.cursor() of the helpers that
\* bypass execute_query): no commit and no rollback; value is the answer.
RawExecute(self, h, db, q, fail, a) ==
    IF fail \/ h.aborted \/ ~a.ok
    THEN Outcome(TRUE, Answer(FALSE, db, <<>>, <<>>), db, Handle("open", TRUE),
                 << Event(q.tag, self, q.table, FALSE) >>, 0)
    ELSE Outcome(FALSE, a, db, h, << Event(q.tag, self, q.table, TRUE) >>, 0)

raw_execute(self, h, db, q, params, fail) ==
    IF h.st # "open"
    THEN Outcome(TRUE, Answer(FALSE, db, <<>>, <<>>), db, h, <<>>, 0)
    ELSE RawExecute(self, h, db, q, fail, PgExec(db, q, params))

\* ------------------------------------------------------------------ DatabaseUtility
\* In every method, fs is the set of ordinals of the statements of the call
\* that the environment makes fail (lost session, lock, permission); ev and
\* errs are the statements sent and the errors logged so far in the call.

NamesOf(rows) == [i \in 1..Len(rows) |-> rows[i].vals[1]]

\* An except-branch that lets the error of its emergency query through.
FetchAllTablesEmergency_Propagates(db, ev, errs, e) ==
    IF e.raised THEN Outcome(TRUE, <<>>, db, e.h, ev \o e.ev, errs + 1 + e.errs)
    ELSE Outcome(FALSE, NamesOf(e.value), db, e.h, ev \o e.ev, errs + 1 + e.errs)

\* except-branch of fetch_all_tables: e is the outcome of the emergency query.
FetchAllTablesEmergency(db, ev, errs, e) ==
    IF ~e.raised /\ e.value # <<>>
    THEN Outcome(FALSE, NamesOf(e.value), db, e.h, ev \o e.ev, errs + 1 + e.errs)
    ELSE Outcome(FALSE, <<>>, db, e.h, ev \o e.ev, errs + 1 + e.errs + Count(e.raised))

fetch_all_tables_except(self, h, db, ev, errs, fs) ==
    FetchAllTablesEmergency(db, ev, errs,
        execute_query(self, h, db, Stmt("SELECT", "ws", "owned", Null, <<>>, FALSE), <<>>, 5 \in fs))

\* s is the outcome of visible_tables_query.
FetchAllTablesVisible(self, db, ev, fs, s) ==
    IF s.raised THEN fetch_all_tables_except(self, s.h, db, ev \o s.ev, s.errs, fs)
    ELSE IF s.value # <<>>
    THEN Outcome(FALSE, NamesOf(s.value), db, s.h, ev \o s.ev, 0)
    ELSE Outcome(FALSE, <<>>, db, s.h, ev \o s.ev, 0)

\* s is the outcome of user_query.
FetchAllTablesUser(self, db, ev, fs, s) ==
    IF s.raised THEN fetch_all_tables_except(self, s.h, db, ev \o s.ev, s.errs, fs)
    ELSE FetchAllTablesVisible(self, db, ev \o s.ev, fs,
             execute_query(self, s.h, db, Stmt("SELECT", "ws", "visible", Null, <<>>, FALSE),
                           <<>>, 4 \in fs))

\* s is the outcome of search_path_query.
FetchAllTablesSearchPath(self, db, ev, fs, s) ==
    IF s.raised THEN fetch_all_tables_except(self, s.h, db, ev \o s.ev, s.errs, fs)
    ELSE FetchAllTablesUser(self, db, ev \o s.ev, fs,
             execute_query(self, s.h, db, Stmt("SELECT", "", "current_user", Null, <<>>, FALSE),
                           <<>>, 3 \in fs))

\* s is the outcome of _raw_execute.
FetchAllTablesPrimary(self, db, fs, s) ==
    IF s.raised THEN fetch_all_tables_except(self, s.h, db, s.ev, 0, fs)
    ELSE IF s.value.rows # <<>>
    THEN Outcome(FALSE, NamesOf(s.value.rows), db, s.h, s.ev, 0)
    ELSE FetchAllTablesSearchPath(self, db, s.ev, fs,
             execute_query(self, s.h, db, Stmt("SHOW", "", "search_path", Null, <<>>, FALSE),
                           <<>>, 2 \in fs))

fetch_all_tables(self, h, db, fs) ==
    FetchAllTablesPrimary(self, db, fs,
        raw_execute(self, h, db, Stmt("SELECT", "", "pg_tables", Null, <<>>, FALSE),
                    <<"public">>, 1 \in fs))

fetch_table_data(self, h, db, table_name, fs) ==
    execute_query(self, h, db, Stmt("SELECT", "", "SELECT *", table_name, <<>>, FALSE), <<>>, 1 \in fs)

\* The statement without its IF NOT EXISTS guard.
CreateTableQuery_Unguarded(table_name, columns) ==
    Stmt("CREATE", "", "CREATE", table_name, columns, FALSE)

\* query = f"CREATE TABLE IF NOT EXISTS {table_name} ({column_definitions});"
CreateTableQuery(table_name, columns) == Stmt("CREATE", "", "CREATE", table_name, columns, TRUE)

\* A create_table that drops the table first.
create_table_Recreate(self, h, db, table_name, columns, fs) ==
    execute_query(self, h, [db EXCEPT ![table_name] = NoTable],
                  CreateTableQuery(table_name, columns), <<>>, 1 \in fs)

create_table(self, h, db, table_name, columns, fs) ==
    execute_query(self, h, db, CreateTableQuery(table_name, columns), <<>>, 1 \in fs)

Descriptors(rows) == [i \in 1..Len(rows) |-> [name |-> rows[i].vals[1], type |-> rows[i].vals[2]]]

\* An except-branch that lets the error of its own query through.
GetTableColumnsLastResort_Propagates(db, ev, e) ==
    IF e.raised
    THEN Outcome(TRUE, <<>>, db, e.h, ev \o e.ev, 1 + e.errs)
    ELSE Outcome(FALSE, Descriptors(e.value), db, e.h, ev \o e.ev, 1)

\* except-branch of get_table_columns: e is the outcome of the
\* information_schema query.
GetTableColumnsLastResort(db, ev, e) ==
    IF e.raised
    THEN Outcome(FALSE, <<>>, db, e.h, ev \o e.ev, 1 + e.errs + 1)
    ELSE Outcome(FALSE, Descriptors(e.value), db, e.h, ev \o e.ev, 1)

get_table_columns_except(self, h, db, table_name, ev, fs) ==
    GetTableColumnsLastResort(db, ev,
        execute_query(self, h, db, Stmt("SELECT", "ws", "info_columns", table_name, <<>>, FALSE),
                      <<"public", table_name>>, 4 \in fs))

\* A type lookup that leaves the type None when it finds no row.
AltType_NoDefault(rows) == IF rows # <<>> THEN rows[1].vals[1] ELSE Null

\* _alt_get_columns: the type of one name of the zero-row select, rows being
\* the result of its information_schema lookup.
AltType(rows) == IF rows # <<>> THEN rows[1].vals[1] ELSE "text"

AltColumns(db, table_name, names) ==
    [i \in 1..Len(names) |->
        [name |-> names[i],
         type |-> AltType(PgExec(db, Stmt("SELECT", "ws", "info_type", table_name, <<>>, FALSE),
                                 <<table_name, names[i]>>).rows)]]

\* s is the outcome of the zero-row select of _alt_get_columns; the lookups
\* of the types follow on the same cursor.
GetTableColumnsAlt(self, db, table_name, ev, fs, s) ==
    IF s.raised
    THEN get_table_columns_except(self, s.h, db, table_name, ev \o s.ev, fs)
    ELSE IF s.value.desc # <<>> /\ 3 \in fs
    THEN get_table_columns_except(self, Handle("open", TRUE), db, table_name,
             ev \o s.ev \o << Event("info_type", self, table_name, FALSE) >>, fs)
    ELSE Outcome(FALSE, AltColumns(db, table_name, s.value.desc), db, s.h,
                 ev \o s.ev \o [i \in 1..Len(s.value.desc) |-> Event("info_type", self, table_name, TRUE)],
                 0)

\* s is the outcome of _raw_get_columns.
GetTableColumnsPrimary(self, db, table_name, fs, s) ==
    IF s.raised THEN get_table_columns_except(self, s.h, db, table_name, s.ev, fs)
    ELSE IF s.value.rows # <<>>
    THEN Outcome(FALSE, Descriptors(s.value.rows), db, s.h, s.ev, 0)
    ELSE GetTableColumnsAlt(self, db, table_name, s.ev, fs,
             raw_execute(self, s.h, db, Stmt("SELECT", "", "LIMIT 0", table_name, <<>>, FALSE),
                         <<>>, 2 \in fs))

get_table_columns(self, h, db, table_name, fs) ==
    GetTableColumnsPrimary(self, db, table_name, fs,
        raw_execute(self, h, db, Stmt("SELECT", "ws", "attributes", table_name, <<>>, FALSE),
                    <<"public", table_name>>, 1 \in fs))

\* query = f"INSERT INTO {table_name} ({column_names}) VALUES ({placeholders});"
InsertQuery(table_name, columns) == Stmt("INSERT", "", "INSERT", table_name, columns, FALSE)

\* The progress of an insertion loop: count is the number of rows whose
\* INSERT returned.
Loop(raised, db, h, ev, errs, count) ==
    [raised |-> raised, db |-> db, h |-> h, ev |-> ev, errs |-> errs, count |-> count]

\* values = [row[col] for col in columns] / tuple(row.get(col) for col in columns)
RowValues(row, columns) == [k \in 1..Len(columns) |-> RowGet(row, columns[k])]

\* The loop over data from row i on, st being its progress before row i.
\* strict: values are row[col] (KeyError on a missing key); otherwise
\* row.get(col). The first failure leaves the loop.
RECURSIVE InsertRows(_, _, _, _, _, _, _, _)
InsertRowsNext(self, table_name, columns, data, i, fs, strict, st, r) ==
    IF r.raised
    THEN Loop(TRUE, r.db, r.h, st.ev \o r.ev, st.errs + r.errs, st.count)
    ELSE InsertRows(self, table_name, columns, data, i + 1, fs, strict,
                    Loop(FALSE, r.db, r.h, st.ev \o r.ev, st.errs + r.errs, st.count + 1))

InsertRows(self, table_name, columns, data, i, fs, strict, st) ==
    IF i > Len(data) THEN st
    ELSE IF strict /\ \E c \in Range(columns) : ~RowHas(data[i], c)
    THEN Loop(TRUE, st.db, st.h, st.ev, st.errs, st.count)
    ELSE InsertRowsNext(self, table_name, columns, data, i, fs, strict, st,
             execute_query(self, st.h, st.db, InsertQuery(table_name, columns),
                           RowValues(data[i], columns), i \in fs))

\* The alternative approach of insert_data, alt being how its loop ended.
InsertDataAlternative(alt) ==
    Outcome(FALSE, alt.count, alt.db, alt.h, alt.ev, alt.errs + Count(alt.raised))

\* m is how the first loop of insert_data ended. odict: the text of the error
\* caught holds "odict_iterator"; fs2: the rows whose INSERT fails in the
\* alternative loop.
InsertDataFirst(self, table_name, data, odict, fs2, m) ==
    IF ~m.raised THEN Outcome(FALSE, m.count, m.db, m.h, m.ev, m.errs)
    ELSE IF ~odict THEN Outcome(FALSE, m.count, m.db, m.h, m.ev, m.errs + 1)
    ELSE InsertDataAlternative(
             InsertRows(self, table_name, data[1].keys, data, 1, fs2, FALSE,
                        Loop(FALSE, m.db, m.h, m.ev, m.errs + 1, m.count)))

\* An insert_data without its "if not data" return: data[0] raises IndexError,
\* which the except clause logs.
insert_data_Unguarded(self, h, db, table_name, data, fs, odict, fs2) ==
    IF data = <<>> THEN Outcome(FALSE, 0, db, h, <<>>, 1)
    ELSE InsertDataFirst(self, table_name, data, odict, fs2,
             InsertRows(self, table_name, data[1].keys, data, 1, fs, TRUE,
                        Loop(FALSE, db, h, <<>>, 0, 0)))

\* fs: the rows whose INSERT fails in the first loop. The value is the
\* number of rows inserted.
insert_data(self, h, db, table_name, data, fs, odict, fs2) ==
    IF data = <<>> THEN Outcome(FALSE, 0, db, h, <<>>, 0)
    ELSE InsertDataFirst(self, table_name, data, odict, fs2,
             InsertRows(self, table_name, data[1].keys, data, 1, fs, TRUE,
                        Loop(FALSE, db, h, <<>>, 0, 0)))

\* ------------------------------------------------------------------ configuration
\* table_mapping is a Python dict: a sequence of (source, target) in
\* insertion order, a key set twice keeping its first position.
Item(source, target) == [source |-> source, target |-> target]
DictSet(d, k, v) ==
    IF \E i \in 1..Len(d) : d[i].source = k
    THEN [i \in 1..Len(d) |-> IF d[i].source = k THEN Item(k, v) ELSE d[i]]
    ELSE Append(d, Item(k, v))

Truthy(x) == x # Null

\* The loop with the test 'if source_table:' only.
RECURSIVE SyncSettingsFrom_AnyTarget(_, _)
SyncSettingsFrom_AnyTarget(tables, table_mapping) ==
    IF tables = <<>> THEN table_mapping
    ELSE LET table_info == Head(tables) IN
         SyncSettingsFrom_AnyTarget(Tail(tables),
             IF Truthy(table_info.source)
             THEN DictSet(table_mapping, table_info.source, table_info.target)
             ELSE table_mapping)

RECURSIVE SyncSettingsFrom(_, _)
SyncSettingsFrom(tables, table_mapping) ==
    IF tables = <<>> THEN table_mapping
    ELSE LET table_info == Head(tables) IN
         SyncSettingsFrom(Tail(tables),
             IF Truthy(table_info.source) /\ Truthy(table_info.target)
             THEN DictSet(table_mapping, table_info.source, table_info.target)
             ELSE table_mapping)

get_sync_settings_AnyTarget(config) == SyncSettingsFrom_AnyTarget(config, <<>>)

get_sync_settings(config) == SyncSettingsFrom(config, <<>>)

\* The "sync.tables" lists the run is given.
ConfigEntries ==
    {Item(s, t) : s \in {Wildcard, "a"}, t \in {Null, "c"}} \cup {Item(Null, "c")}
Configs == UNION {[1..n -> ConfigEntries] : n \in 0..MaxEntries}

\* ------------------------------------------------------------------ state
VARIABLES
    src, tgt,          \* the source and the target database
    tgt0,              \* the target database before the run
    hs,                \* source_db / target_db: the handle of each side
    pc,                \* position of sync_data
    failed,            \* sync_data is leaving through its except clause
    config,            \* the "sync.tables" list of the configuration
    table_mapping,     \* SyncManager.table_mapping
    idx,               \* position of sync()'s loop in table_mapping
    all_tables,        \* sync(): the tables fetch_all_tables returned
    tIdx,              \* position of the loop over all_tables
    source_columns,    \* sync_table(): local, unbound until assigned
    source_data,       \* sync_table(): local, unbound until assigned
    trace,             \* calls made and statements sent, in order
    errors,            \* number of logger.error calls
    faults,            \* statements the environment has made fail
    appeared,          \* tables that appeared in the source after discovery
    response,          \* what sync_endpoint answers: "none", "200", "500"
    ncalls, last, prev, \* harness: calls made, the last call and the one before
    nruns, lastRun,    \* runs of sync_data completed before this one, and the last of them
    rpc,               \* overlapping runs: the step each run is at
    waiting,           \* overlapping runs: the run is suspended at the await of its step
    inflight,          \* overlapping runs: operations dispatched on each handle, not yet returned
    left               \* overlapping runs: tables of the listing not yet processed

vars == << src, tgt, tgt0, hs, pc, failed, config, table_mapping, idx, all_tables, tIdx,
           source_columns, source_data, trace, errors, faults, appeared, response,
           ncalls, last, prev, nruns, lastRun, rpc, waiting, inflight, left >>

runLocals == << tgt0, config, table_mapping, idx, all_tables, tIdx, source_columns, source_data >>
harness == << ncalls, last, prev >>
earlier == << nruns, lastRun >>
overlap == << rpc, waiting, inflight, left >>

Unbound == [bound |-> FALSE, val |-> <<>>]
Bound(v) == [bound |-> TRUE, val |-> v]

\* The runs of sync_data that may overlap, and the handles they may hold.
Runs == 1..MaxRuns
Handles == Runs \X Sides

\* What is kept of a completed run: the target before it, the source and the
\* configuration at its end, the tables it listed, the errors it logged.
RunRecord(before, source, cfg, tables, errs, didFail) ==
    [before |-> before, src |-> source, config |-> cfg, all_tables |-> tables,
     errs |-> errs, failed |-> didFail]
NoRun == RunRecord(EmptyDb, EmptyDb, <<>>, Unbound, 0, FALSE)

\* A call of the harness: its arguments, the failures given to it, the
\* database and the handle before it, and its outcome.
CallRecord(op, table, cols, data, fs, odict, fs2, before, hbefore, r) ==
    [op |-> op, table |-> table, cols |-> cols, data |-> data, fs |-> fs, odict |-> odict,
     fs2 |-> fs2, before |-> before, hbefore |-> hbefore, raised |-> r.raised,
     value |-> r.value, errs |-> r.errs, ev |-> r.ev]
NoCall == CallRecord("none", Null, <<>>, <<>>, {}, FALSE, {}, EmptyDb, NewHandle,
                     Outcome(FALSE, <<>>, EmptyDb, NewHandle, <<>>, 0))
Summary(c) == [op |-> c.op, table |-> c.table, cols |-> c.cols, raised |-> c.raised]

SrcInits ==
    {[EmptyDb EXCEPT !["a"] = Table("public", UsersCols, UsersRows(n)), !["b"] = b] :
        n \in 0..MaxRows, b \in {NoTable, Table("public", UsersCols, UsersRows(1))}}
    \cup {EmptyDb, [EmptyDb EXCEPT !["a"] = Table("other", UsersCols, UsersRows(1))],
          [EmptyDb EXCEPT !["a"] = MatView("other", UsersCols, UsersRows(1))]}

OldRow == << "9", "Z" >>
TgtInits == {EmptyDb, [EmptyDb EXCEPT !["a"] = Table("public", UsersCols, << OldRow >>)]}

InitCommon ==
    /\ src \in SrcInits
    /\ tgt \in TgtInits
    /\ tgt0 = tgt
    /\ hs = [s \in Sides |-> NewHandle]
    /\ failed = FALSE
    /\ config = <<>>
    /\ table_mapping = <<>>
    /\ idx = 1
    /\ all_tables = Unbound
    /\ tIdx = 1
    /\ source_columns = Unbound
    /\ source_data = Unbound
    /\ trace = <<>>
    /\ errors = 0
    /\ faults = 0
    /\ appeared = {}
    /\ response = "none"
    /\ ncalls = 0
    /\ last = NoCall
    /\ prev = Summary(NoCall)
    /\ nruns = 0
    /\ lastRun = NoRun
    /\ rpc = [r \in Runs |-> "idle"]
    /\ waiting = [r \in Runs |-> FALSE]
    /\ inflight = [h \in Handles |-> 0]
    /\ left = [r \in Runs |-> 0]

Init == InitCommon /\ pc = "connect_src"

\* The sets of failing statements a call may be given, within the budget.
FaultSets(n) == {fs \in SUBSET (1..n) : faults + Cardinality(fs) <= MaxFaults}

\* ------------------------------------------------------------------ sync_data
\* await source_db.connect(); on failure the except clause logs and raises
\* HTTPException, and the finally clause runs.
ConnectSource ==
    /\ pc = "connect_src"
    /\ \E ok \in BOOLEAN :
        /\ hs' = [hs EXCEPT !["src"] = connect(@, ok)]
        /\ pc' = IF ok THEN "connect_tgt" ELSE "disconnect_src"
        /\ failed' = ~ok
        /\ errors' = errors + 2 * Count(~ok)
    /\ UNCHANGED << earlier, overlap, src, tgt, runLocals, trace, faults, appeared, response, harness >>

\* A target connection whose failure does not leave the try block.
ConnectTarget_Continue ==
    /\ pc = "connect_tgt"
    /\ \E ok \in BOOLEAN :
        /\ hs' = [hs EXCEPT !["tgt"] = connect(@, ok)]
        /\ pc' = "mapping"
        /\ failed' = FALSE
        /\ errors' = errors + Count(~ok)
    /\ UNCHANGED << earlier, overlap, src, tgt, runLocals, trace, faults, appeared, response, harness >>

ConnectTarget ==
    /\ pc = "connect_tgt"
    /\ \E ok \in BOOLEAN :
        /\ hs' = [hs EXCEPT !["tgt"] = connect(@, ok)]
        /\ pc' = IF ok THEN "mapping" ELSE "disconnect_src"
        /\ failed' = ~ok
        /\ errors' = errors + 2 * Count(~ok)
    /\ UNCHANGED << earlier, overlap, src, tgt, runLocals, trace, faults, appeared, response, harness >>

\* config = load_config(): what the configuration file holds. The file is
\* read at every request. A file with entries that the run before has read
\* is read again as it was; otherwise the file holds any configuration.
load_config == IF lastRun.config = <<>> THEN Configs ELSE {lastRun.config}

\* table_mapping = get_sync_settings(config); an empty mapping raises
\* ValueError. Otherwise SyncManager is built and sync() starts.
LoadMapping ==
    /\ pc = "mapping"
    /\ \E c \in load_config :
        /\ config' = c
        /\ table_mapping' = get_sync_settings(c)
        /\ pc' = IF get_sync_settings(c) = <<>> THEN "disconnect_src" ELSE "sync"
        /\ failed' = (get_sync_settings(c) = <<>>)
        /\ errors' = errors + Count(get_sync_settings(c) = <<>>)
    /\ idx' = 1
    /\ UNCHANGED << earlier, overlap, src, tgt, tgt0, hs, all_tables, tIdx, source_columns, source_data,
                    trace, faults, appeared, response, harness >>

\* ------------------------------------------------------------------ SyncManager
\* if not target_table: target_table = source_table
SyncTableTarget(source_table, target_table) ==
    IF ~Truthy(target_table) THEN source_table ELSE target_table

\* A call that hands the configured target of the wildcard entry on.
SyncTableArgs_PassTarget(table, target_table) == Item(table, target_table)

\* await self.sync_table(table): the arguments sync() passes for a table of
\* the wildcard entry, whose configured target is target_table.
SyncTableArgs(table, target_table) == Item(table, Null)

CurSource == all_tables.val[tIdx]
CurTarget ==
    LET args == SyncTableArgs(CurSource, table_mapping[idx].target)
    IN  SyncTableTarget(args.source, args.target)

\* sync(): the loop is over; sync_data goes to its finally clause.
SyncDone ==
    /\ pc = "sync"
    /\ idx > Len(table_mapping)
    /\ pc' = "disconnect_src"
    /\ UNCHANGED << earlier, overlap, src, tgt, hs, failed, runLocals, trace, errors, faults, appeared,
                    response, harness >>

\* sync(): an entry other than the wildcard is logged and nothing else.
SyncExplicit ==
    /\ pc = "sync"
    /\ idx <= Len(table_mapping)
    /\ table_mapping[idx].source # Wildcard
    /\ idx' = idx + 1
    /\ UNCHANGED << earlier, overlap, src, tgt, tgt0, hs, pc, failed, config, table_mapping, all_tables, tIdx,
                    source_columns, source_data, trace, errors, faults, appeared,
                    response, harness >>

\* A call that returned r: its handle, the statements it sent, what it
\* logged (once more when the caller catches and logs what it raised).
Called(op, side, table, fs, r) ==
    /\ hs' = [hs EXCEPT ![side] = r.h]
    /\ trace' = trace \o << Event(op, side, table, ~r.raised) >> \o r.ev
    /\ errors' = errors + r.errs + Count(r.raised)
    /\ faults' = faults + Cardinality(fs)


\* sync(): the wildcard entry: all_tables = await source_db.fetch_all_tables().
\* Of the statements that may fail, only sets are drawn whose every failure the
\* call meets (removing one changes the outcome).
DiscoverReturns(fs, r) ==
    /\ all_tables' = Bound(r.value)
    /\ Called("listTables", "src", Null, fs, r)
    /\ pc' = IF r.value = <<>> THEN "sync" ELSE "getColumns"
    /\ idx' = IF r.value = <<>> THEN idx + 1 ELSE idx

Discover ==
    /\ pc = "sync"
    /\ idx <= Len(table_mapping)
    /\ table_mapping[idx].source = Wildcard
    /\ \E fs \in FaultSets(5) :
        LET call(f) == fetch_all_tables("src", hs["src"], src, f) IN
        /\ (\A x \in fs : call(fs \ {x}) # call(fs))
        /\ DiscoverReturns(fs, call(fs))
    /\ tIdx' = 1
    /\ source_columns' = Unbound
    /\ source_data' = Unbound
    /\ UNCHANGED << earlier, overlap, src, tgt, tgt0, failed, config, table_mapping, appeared, response, harness >>

\* sync_table(): source_columns = await self.source_db.get_table_columns(source_table)
GetColumnsReturns(fs, r) ==
    /\ source_columns' = IF r.raised THEN Unbound ELSE Bound(r.value)
    /\ Called("getColumns", "src", CurSource, fs, r)

GetColumns ==
    /\ pc = "getColumns"
    /\ \E fs \in FaultSets(4) :
        LET call(f) == get_table_columns("src", hs["src"], src, CurSource, f) IN
        /\ (\A x \in fs : call(fs \ {x}) # call(fs))
        /\ GetColumnsReturns(fs, call(fs))
    /\ pc' = "ensureTable"
    /\ UNCHANGED << earlier, overlap, src, tgt, tgt0, failed, config, table_mapping, idx, all_tables, tIdx,
                    source_data, appeared, response, harness >>

\* sync_table(): await self.target_db.create_table(target_table, source_columns);
\* with source_columns unbound the NameError is caught and logged.
EnsureTableReturns(fs, r) ==
    /\ tgt' = r.db
    /\ Called("ensureTable", "tgt", CurTarget, fs, r)

EnsureTable ==
    /\ pc = "ensureTable"
    /\ IF ~source_columns.bound
       THEN /\ errors' = errors + 1
            /\ UNCHANGED << tgt, hs, trace, faults >>
       ELSE \E fs \in FaultSets(1) :
            EnsureTableReturns(fs,
                create_table("tgt", hs["tgt"], tgt, CurTarget, source_columns.val, fs))
    /\ pc' = "fetchAll"
    /\ UNCHANGED << earlier, overlap, src, failed, runLocals, appeared, response, harness >>

\* sync_table(): source_data = await self.source_db.fetch_table_data(source_table)
FetchAllReturns(fs, r) ==
    /\ source_data' = IF r.raised THEN source_data ELSE Bound(r.value)
    /\ Called("fetchAll", "src", CurSource, fs, r)

FetchAll ==
    /\ pc = "fetchAll"
    /\ \E fs \in FaultSets(1) :
        FetchAllReturns(fs, fetch_table_data("src", hs["src"], src, CurSource, fs))
    /\ pc' = "copy"
    /\ UNCHANGED << earlier, overlap, src, tgt, tgt0, failed, config, table_mapping, idx, all_tables, tIdx,
                    source_columns, appeared, response, harness >>

\* sync_table(): await self.target_db.insert_data(target_table, source_data);
\* with source_data unbound the NameError is caught and logged. Then the loop
\* over all_tables goes on, and after its last table the loop of sync().
\* No error of a session carries the text "odict_iterator".
CopyReturns(fs, r) ==
    /\ tgt' = r.db
    /\ Called("copy", "tgt", CurTarget, fs, r)

Copy ==
    /\ pc = "copy"
    /\ IF ~source_data.bound
       THEN /\ errors' = errors + 1
            /\ UNCHANGED << tgt, hs, trace, faults >>
       ELSE \E fs \in FaultSets(Len(source_data.val)) :
            LET call(f) == insert_data("tgt", hs["tgt"], tgt, CurTarget, source_data.val,
                                       f, FALSE, {}) IN
            /\ (\A x \in fs : call(fs \ {x}) # call(fs))
            /\ CopyReturns(fs, call(fs))
    /\ IF tIdx < Len(all_tables.val)
       THEN tIdx' = tIdx + 1 /\ pc' = "getColumns" /\ idx' = idx
       ELSE tIdx' = tIdx /\ pc' = "sync" /\ idx' = idx + 1
    /\ source_columns' = Unbound
    /\ source_data' = Unbound
    /\ UNCHANGED << earlier, overlap, src, tgt0, failed, config, table_mapping, all_tables, appeared, response, harness >>

\* finally: await source_db.disconnect()
DisconnectSource ==
    /\ pc = "disconnect_src"
    /\ hs' = [hs EXCEPT !["src"] = disconnect(@)]
    /\ pc' = "disconnect_tgt"
    /\ UNCHANGED << earlier, overlap, src, tgt, failed, runLocals, trace, errors, faults, appeared,
                    response, harness >>

\* finally: await target_db.disconnect(); then sync_endpoint returns its
\* message, or the HTTPException of the except clause reaches the caller.
DisconnectTarget ==
    /\ pc = "disconnect_tgt"
    /\ hs' = [hs EXCEPT !["tgt"] = disconnect(@)]
    /\ pc' = "done"
    /\ response' = IF failed THEN "500" ELSE "200"
    /\ UNCHANGED << earlier, overlap, src, tgt, failed, runLocals, trace, errors, faults, appeared, harness >>

\* Another client of the source database creates a table while the run is
\* suspended at an await.
SourceTableAppears ==
    /\ pc \in {"sync", "getColumns", "ensureTable", "fetchAll", "copy"}
    /\ \E n \in {"a", "b"} :
        /\ ~src[n].exists
        /\ src' = [src EXCEPT ![n] = Table("public", UsersCols, UsersRows(1))]
        /\ appeared' = IF all_tables.bound THEN appeared \cup {n} ELSE appeared
    /\ UNCHANGED << earlier, overlap, tgt, hs, pc, failed, runLocals, trace, errors, faults, response, harness >>

Next ==
    \/ ConnectSource
    \/ ConnectTarget
    \/ LoadMapping
    \/ SyncDone
    \/ SyncExplicit
    \/ Discover
    \/ GetColumns
    \/ EnsureTable
    \/ FetchAll
    \/ Copy
    \/ DisconnectSource
    \/ DisconnectTarget
    \/ SourceTableAppears

Spec == Init /\ [][Next]_vars

\* ------------------------------------------------------------------ repeated runs
\* sync_endpoint is requested again after a run has ended: sync_data makes
\* new handles and starts over on the databases as the run left them.
NextRun ==
    /\ pc = "done"
    /\ nruns + 1 < MaxRuns
    /\ nruns' = nruns + 1
    /\ lastRun' = RunRecord(tgt0, src, config, all_tables, errors, failed)
    /\ pc' = "connect_src"
    /\ hs' = [s \in Sides |-> NewHandle]
    /\ tgt0' = tgt
    /\ failed' = FALSE
    /\ config' = <<>>
    /\ table_mapping' = <<>>
    /\ idx' = 1
    /\ all_tables' = Unbound
    /\ tIdx' = 1
    /\ source_columns' = Unbound
    /\ source_data' = Unbound
    /\ trace' = <<>>
    /\ errors' = 0
    /\ appeared' = {}
    /\ response' = "none"
    /\ UNCHANGED << src, tgt, faults, harness, overlap >>

NextRuns == Next \/ NextRun
SpecRuns == Init /\ [][NextRuns]_vars

\* ------------------------------------------------------------------ harness
\* The methods of one DatabaseUtility (the target side's) called in any
\* order with any arguments, as a caller other than sync_data may.
InitApi == InitCommon /\ pc = "api" /\ src = EmptyDb

FullRow(i) == Row(<<"id", "name">>, << IdVals[i], NameVals[i] >>)
ShortRow(i) == Row(<<"id">>, << IdVals[i] >>)
DataArgs ==
    {[i \in 1..n |-> FullRow(i)] : n \in 0..MaxRows}
    \cup { << FullRow(1), ShortRow(2) >>, << ShortRow(1), FullRow(2) >> }
TableArgs == {"a", "c"}
ColumnArgs == { <<>>, UsersCols }

MayCall == pc = "api" /\ ncalls < MaxCalls

ApiReturns(op, table, cols, data, fs, odict, fs2, r) ==
    /\ tgt' = r.db
    /\ hs' = [hs EXCEPT !["tgt"] = r.h]
    /\ last' = CallRecord(op, table, cols, data, fs, odict, fs2, tgt, hs["tgt"], r)
    /\ prev' = Summary(last)
    /\ ncalls' = ncalls + 1
    /\ UNCHANGED << earlier, overlap, src, pc, failed, runLocals, trace, errors, faults, appeared, response >>

ApiConnect ==
    /\ MayCall
    /\ \E ok \in BOOLEAN :
        ApiReturns("connect", Null, <<>>, <<>>, {}, FALSE, {},
                   Outcome(~ok, <<>>, tgt, connect(hs["tgt"], ok), <<>>, Count(~ok)))

ApiDisconnect ==
    /\ MayCall
    /\ ApiReturns("disconnect", Null, <<>>, <<>>, {}, FALSE, {},
               Outcome(FALSE, <<>>, tgt, disconnect(hs["tgt"]), <<>>, 0))

ApiCreateTable ==
    /\ MayCall
    /\ \E t \in TableArgs, cols \in ColumnArgs, fs \in FaultSets(1) :
        ApiReturns("ensureTable", t, cols, <<>>, fs, FALSE, {},
                   create_table("tgt", hs["tgt"], tgt, t, cols, fs))

\* odict and fs2 matter only once the first loop has failed.
ApiInsertData ==
    /\ MayCall
    /\ \E t \in TableArgs, data \in DataArgs :
       \E fs \in FaultSets(Len(data)) :
        LET first(f) == insert_data("tgt", hs["tgt"], tgt, t, data, f, FALSE, {}) IN
        /\ (\A x \in fs : first(fs \ {x}) # first(fs))
        /\ \E odict \in {FALSE, first(fs).errs > 0} :
           \E fs2 \in (IF odict THEN FaultSets(Len(data)) ELSE {{}}) :
               LET second(f) == insert_data("tgt", hs["tgt"], tgt, t, data, fs, odict, f) IN
               /\ (\A x \in fs2 : second(fs2 \ {x}) # second(fs2))
               /\ ApiReturns("copy", t, <<>>, data, fs, odict, fs2, second(fs2))

NextApi ==
    \/ ApiConnect
    \/ ApiDisconnect
    \/ ApiCreateTable
    \/ ApiInsertData

SpecApi == InitApi /\ [][NextApi]_vars

\* ------------------------------------------------------------------ query harness
\* The querying methods of one DatabaseUtility (the source side's) called in
\* any order on any source database, with the handle in any state.
InitQuery == InitCommon /\ pc = "query" /\ tgt = EmptyDb

\* What execute_query raises: its own Exception("Database connection is not
\* established.") when self.connection is None, psycopg2's InterfaceError
\* from conn.cursor() on a closed connection, the error of the statement.
ExecuteQueryError(h, db, q, params, fail) ==
    IF h.st = "none" THEN "NotEstablished"
    ELSE IF h.st = "closed" THEN "InterfaceError"
    ELSE IF fail \/ h.aborted \/ ~PgExec(db, q, params).ok THEN "DatabaseError"
    ELSE "none"

\* The statements execute_query is given: its callers' own and a caller's.
QueryArgs ==
    { [q |-> Stmt("SELECT", "", "SELECT *", "a", <<>>, FALSE), params |-> <<>>],
      [q |-> Stmt("SELECT", "ws", "visible", Null, <<>>, FALSE), params |-> <<>>],
      [q |-> Stmt("SELECT", "ws", "info_columns", "a", <<>>, FALSE), params |-> <<"public", "a">>],
      [q |-> Stmt("SELECT", "", "current_user", Null, <<>>, FALSE), params |-> <<>>],
      [q |-> CreateTableQuery("c", UsersCols), params |-> <<>>],
      [q |-> InsertQuery("a", ColNames(UsersCols)), params |-> << IdVals[4], NameVals[4] >>] }

NoQuery == [q |-> Stmt("", "", "none", Null, <<>>, FALSE), params |-> <<>>]

QueryRecord(op, table, qa, fs, before, hbefore, err, r) ==
    [op |-> op, table |-> table, cols |-> <<>>, q |-> qa.q, params |-> qa.params, fs |-> fs,
     before |-> before, hbefore |-> hbefore, raised |-> r.raised, value |-> r.value,
     errs |-> r.errs, ev |-> r.ev, err |-> err]

MayQuery == pc = "query" /\ ncalls < MaxCalls

QueryReturns(op, table, qa, fs, err, r) ==
    /\ src' = r.db
    /\ hs' = [hs EXCEPT !["src"] = r.h]
    /\ last' = QueryRecord(op, table, qa, fs, src, hs["src"], err, r)
    /\ ncalls' = ncalls + 1
    /\ UNCHANGED << earlier, overlap, tgt, pc, failed, runLocals, trace, errors, faults, appeared, response, prev >>

QueryConnect ==
    /\ MayQuery
    /\ \E ok \in BOOLEAN :
        QueryReturns("connect", Null, NoQuery, {}, IF ok THEN "none" ELSE "OperationalError",
                     Outcome(~ok, <<>>, src, connect(hs["src"], ok), <<>>, Count(~ok)))

QueryDisconnect ==
    /\ MayQuery
    /\ QueryReturns("disconnect", Null, NoQuery, {}, "none",
                    Outcome(FALSE, <<>>, src, disconnect(hs["src"]), <<>>, 0))

QueryExecute ==
    /\ MayQuery
    /\ \E qa \in QueryArgs, fs \in FaultSets(1) :
        QueryReturns("execute", qa.q.table, qa, fs,
                     ExecuteQueryError(hs["src"], src, qa.q, qa.params, 1 \in fs),
                     execute_query("src", hs["src"], src, qa.q, qa.params, 1 \in fs))

QueryFetchAllTables ==
    /\ MayQuery
    /\ \E fs \in FaultSets(5) :
        LET call(f) == fetch_all_tables("src", hs["src"], src, f) IN
        /\ (\A x \in fs : call(fs \ {x}) # call(fs))
        /\ QueryReturns("listTables", Null, NoQuery, fs, "none", call(fs))

QueryGetTableColumns ==
    /\ MayQuery
    /\ \E t \in {"a", "b"}, fs \in FaultSets(4) :
        LET call(f) == get_table_columns("src", hs["src"], src, t, f) IN
        /\ (\A x \in fs : call(fs \ {x}) # call(fs))
        /\ QueryReturns("getColumns", t, NoQuery, fs, "none", call(fs))

NextQuery ==
    \/ QueryConnect
    \/ QueryDisconnect
    \/ QueryExecute
    \/ QueryFetchAllTables
    \/ QueryGetTableColumns

SpecQuery == InitQuery /\ [][NextQuery]_vars

\* ------------------------------------------------------------------ overlapping runs
\* Runs of sync_data triggered while others are suspended at an await: every
\* await of sync_data, sync and sync_table is a dispatch of one operation on
\* a handle and, later, its return; between the two any other run may move.
InitOverlap == InitCommon /\ pc = "overlap" /\ src = EmptyDb /\ tgt = EmptyDb

\* The steps of a run that await an operation, and the side whose handle
\* the operation uses.
AwaitSteps == {"connect_src", "connect_tgt", "listTables", "getColumns", "ensureTable",
               "fetchAll", "copy", "disconnect_src", "disconnect_tgt"}
SideOf(step) ==
    IF step \in {"connect_src", "listTables", "getColumns", "fetchAll", "disconnect_src"}
    THEN "src" ELSE "tgt"

\* Handles shared by every run, as module-level objects would be.
HandleOf_Shared(r, side) == << 1, side >>

\* source_db = DatabaseUtility(...), target_db = DatabaseUtility(...): each
\* call of sync_data makes its own two handles.
HandleOf(r, side) == << r, side >>

\* The steps that may follow the return of a step, n being the tables left.
After(step, n) ==
    CASE step = "connect_src" -> {"connect_tgt", "disconnect_src"}
      [] step = "connect_tgt" -> {"mapping", "disconnect_src"}
      [] step = "listTables" -> {IF n = 0 THEN "disconnect_src" ELSE "getColumns"}
      [] step = "getColumns" -> {"ensureTable"}
      [] step = "ensureTable" -> {"fetchAll"}
      [] step = "fetchAll" -> {"copy"}
      [] step = "copy" -> {IF n = 0 THEN "disconnect_src" ELSE "getColumns"}
      [] step = "disconnect_src" -> {"disconnect_tgt"}
      [] OTHER -> {"done"}

\* sync_endpoint: a request starts a run.
Trigger(r) ==
    /\ pc = "overlap"
    /\ rpc[r] = "idle"
    /\ rpc' = [rpc EXCEPT ![r] = "connect_src"]
    /\ UNCHANGED << src, tgt, hs, pc, failed, runLocals, trace, errors, faults, appeared,
                    response, harness, earlier, waiting, inflight, left >>

\* table_mapping = get_sync_settings(config), no await: an empty mapping
\* raises, a mapping without the wildcard makes sync() a loop of logs.
Mapping(r) ==
    /\ pc = "overlap"
    /\ rpc[r] = "mapping"
    /\ \E next \in {"listTables", "disconnect_src"} : rpc' = [rpc EXCEPT ![r] = next]
    /\ UNCHANGED << src, tgt, hs, pc, failed, runLocals, trace, errors, faults, appeared,
                    response, harness, earlier, waiting, inflight, left >>

\* await ...: the operation of the step is handed to a worker thread.
Dispatch(r) ==
    /\ pc = "overlap"
    /\ rpc[r] \in AwaitSteps
    /\ ~waiting[r]
    /\ waiting' = [waiting EXCEPT ![r] = TRUE]
    /\ inflight' = [inflight EXCEPT ![HandleOf(r, SideOf(rpc[r]))] = @ + 1]
    /\ UNCHANGED << src, tgt, hs, pc, failed, runLocals, trace, errors, faults, appeared,
                    response, harness, earlier, rpc, left >>

\* The operation returns (or raises) and the run goes on to its next step;
\* a listing returns n tables, a copy ends the steps of one table.
Return(r) ==
    /\ pc = "overlap"
    /\ waiting[r]
    /\ waiting' = [waiting EXCEPT ![r] = FALSE]
    /\ inflight' = [inflight EXCEPT ![HandleOf(r, SideOf(rpc[r]))] = @ - 1]
    /\ \E n \in (IF rpc[r] = "listTables" THEN 0..MaxTables
                  ELSE IF rpc[r] = "copy" THEN {left[r] - 1} ELSE {left[r]}) :
        /\ left' = [left EXCEPT ![r] = n]
        /\ \E next \in After(rpc[r], n) : rpc' = [rpc EXCEPT ![r] = next]
    /\ UNCHANGED << src, tgt, hs, pc, failed, runLocals, trace, errors, faults, appeared,
                    response, harness, earlier >>

NextOverlap ==
    \/ \E r \in Runs : Trigger(r)
    \/ \E r \in Runs : Mapping(r)
    \/ \E r \in Runs : Dispatch(r)
    \/ \E r \in Runs : Return(r)

SpecOverlap == InitOverlap /\ [][NextOverlap]_vars

\* The run of sync_data and the calls of the querying methods, each from its
\* own initial states.
InitRunOrQuery == Init \/ InitQuery
NextRunOrQuery == Next \/ NextQuery
SpecRunOrQuery == InitRunOrQuery /\ [][NextRunOrQuery]_vars

\* ------------------------------------------------------------------ properties

\* The positions of trace holding the event op on table of side.
Positions(op, side, table) ==
    {k \in 1..Len(trace) : trace[k].op = op /\ trace[k].side = side /\ trace[k].table = table}

NoFailure == \A k \in 1..Len(trace) : trace[k].ok

RunDone == pc = "done"
RunCompleted == pc = "done" /\ ~failed

OnlyExplicit ==
    /\ table_mapping # <<>>
    /\ \A i \in 1..Len(table_mapping) : table_mapping[i].source # Wildcard

\* C1: when the mapping holds only explicit pairs, a completed run has made,
\* for every pair, exactly one getColumns(source), one ensureTable(target)
\* and one fetchAll(source), in this order, followed by one copy(target)
\* whenever the fetch returned, whatever happened to the other pairs.
C1_ExplicitPairsEachSynced ==
    (RunCompleted /\ OnlyExplicit) =>
        \A i \in 1..Len(table_mapping) :
            LET p == table_mapping[i]
                g == Positions("getColumns", "src", p.source)
                e == Positions("ensureTable", "tgt", p.target)
                f == Positions("fetchAll", "src", p.source)
                c == Positions("copy", "tgt", p.target)
            IN  /\ Cardinality(g) = 1 /\ Cardinality(e) = 1 /\ Cardinality(f) = 1
                /\ \A k1 \in g, k2 \in e, k3 \in f :
                    /\ k1 < k2 /\ k2 < k3
                    /\ trace[k3].ok => (Cardinality(c) = 1 /\ \A k4 \in c : k3 < k4)

\* ------------------------------------------------------------------ insert_data
InsertsOf(c) == {k \in 1..Len(c.ev) : c.ev[k].op = "INSERT"}

\* A call of insert_data on an open handle with N >= 1 rows of the columns
\* of an existing table, in which the INSERT of exactly one row fails.
OneRowFails(c) ==
    /\ c.op = "copy"
    /\ c.hbefore = Handle("open", FALSE)
    /\ c.data # <<>>
    /\ \A i \in 1..Len(c.data) : c.data[i].keys = ColNames(UsersCols)
    /\ c.before[c.table].exists
    /\ c.before[c.table].cols = UsersCols
    /\ Cardinality(c.fs) = 1
    /\ ~c.odict

\* C2: such a call sends an INSERT for each of the N rows, N-1 of them
\* succeed, one failure is logged, and the call returns.
C2_OneFailingRowIsSkipped ==
    OneRowFails(last) =>
        /\ Cardinality(InsertsOf(last)) = Len(last.data)
        /\ Cardinality({k \in InsertsOf(last) : last.ev[k].ok}) = Len(last.data) - 1
        /\ Len(tgt[last.table].rows) = Len(last.before[last.table].rows) + Len(last.data) - 1
        /\ last.errs >= 1
        /\ ~last.raised

\* ------------------------------------------------------------------ the run
IsWildcard(i) == table_mapping[i].source = Wildcard
HasWildcard == \E i \in 1..Len(table_mapping) : IsWildcard(i)

\* The pairs the mapping resolves to, the wildcard entry standing for the
\* tables discovered.
Expanded == [k \in 1..Len(all_tables.val) |-> Item(all_tables.val[k], all_tables.val[k])]
RECURSIVE ResolvedFrom(_)
ResolvedFrom(i) ==
    IF i > Len(table_mapping) THEN <<>>
    ELSE (IF IsWildcard(i) THEN Expanded ELSE << table_mapping[i] >>) \o ResolvedFrom(i + 1)
Resolved == ResolvedFrom(1)

SameContent(s, t) ==
    /\ tgt[t].exists
    /\ tgt[t].cols = src[s].cols
    /\ tgt[t].rows = src[s].rows

\* C3: after a completed run in which no statement failed and whose target
\* was empty before, every resolved pair whose source table exists has its
\* target table with the source's columns and exactly the source's rows.
C3_TargetHoldsSourceTables ==
    (RunCompleted /\ NoFailure /\ tgt0 = EmptyDb) =>
        \A i \in 1..Len(Resolved) :
            src[Resolved[i].source].exists => SameContent(Resolved[i].source, Resolved[i].target)

\* The tables of the getColumns calls, in the order of the calls.
IsGetColumns(e) == e.op = "getColumns"
Processed == LET calls == SelectSeq(trace, IsGetColumns)
             IN  [k \in 1..Len(calls) |-> calls[k].table]
IsPrefix(s, t) == Len(s) <= Len(t) /\ \A k \in 1..Len(s) : s[k] = t[k]

\* The source table being processed when trace[k] was recorded.
SourceAt(k) ==
    LET g == {j \in 1..k : trace[j].op = "getColumns"}
    IN  trace[CHOOSE j \in g : \A i \in g : i <= j].table

\* C4: the run lists the source's tables at most once; the tables it
\* processes are a prefix of that list at every moment and the whole list,
\* each table once, when the run is done; every call on the target names the
\* source table being processed; a table that appeared in the source after
\* the listing is not processed.
C4_WildcardProcessesDiscovered ==
    /\ Cardinality(Positions("listTables", "src", Null)) <= 1
    /\ IsPrefix(Processed, all_tables.val)
    /\ \A j, k \in 1..Len(Processed) : j # k => Processed[j] # Processed[k]
    /\ (RunDone /\ all_tables.bound) => Processed = all_tables.val
    /\ \A k \in 1..Len(trace) :
          (trace[k].op \in {"ensureTable", "fetchAll", "copy", "CREATE", "SELECT *", "INSERT"})
              => trace[k].table = SourceAt(k)
    /\ \A n \in appeared : n \notin Range(Processed)

C4_Witness ==
    /\ RunCompleted
    /\ HasWildcard
    /\ all_tables.val = << "a" >>
    /\ appeared = {"b"}
    /\ Len(tgt["a"].rows) > Len(tgt0["a"].rows)

\* C5: when the run has reached its end, on whichever path, no handle is
\* left open: each one opened during the run has been closed.
C5_HandlesClosedAtEnd ==
    RunDone => \A s \in Sides : hs[s].st # "open"

C5_Witness ==
    /\ RunDone
    /\ hs["src"].st = "closed"
    /\ hs["tgt"].st = "none"

\* C6: the run goes past its connecting phase only with both handles open;
\* once a connection could not be opened no call is made and no statement is
\* sent on either handle, the run is failed and its caller gets the error.
ConnectFailed ==
    /\ pc \in {"disconnect_src", "disconnect_tgt", "done"}
    /\ \E s \in Sides : hs[s].st = "none"

C6_ConnectFailureIsFatal ==
    /\ pc \in {"mapping", "sync", "getColumns", "ensureTable", "fetchAll", "copy"}
          => \A s \in Sides : hs[s].st = "open"
    /\ ConnectFailed => (trace = <<>> /\ failed /\ tgt = tgt0)
    /\ (ConnectFailed /\ RunDone) => response = "500"

C6_Witness ==
    /\ RunDone
    /\ hs["src"].st = "none"
    /\ response = "500"

\* C7: once ensureTable has failed for a table, no fetchAll is issued for it
\* and no INSERT is sent into it in the rest of the run.
C7_FailedProvisionSkipsTransfer ==
    \A k \in 1..Len(trace) :
        (trace[k].op = "ensureTable" /\ ~trace[k].ok) =>
            \A j \in (k + 1)..Len(trace) :
                trace[j].table = trace[k].table => trace[j].op \notin {"fetchAll", "INSERT"}

\* The position in Resolved of the pair a failure on table n belongs to:
\* sync_table is only ever given the tables of the wildcard entry.
PairOf(n) == CHOOSE i \in 1..Len(Resolved) :
                 /\ Resolved[i] = Item(n, n)
                 /\ \A j \in 1..(i - 1) : Resolved[j] # Item(n, n)

\* The pairs of Resolved up to position i that have the source of pair i.
SameSourceUpTo(i) == {j \in 1..i : Resolved[j].source = Resolved[i].source}

\* C8: in a run that connected and has a mapping, a failure at a step of a
\* table stops nothing: every pair after that table's is processed, the run
\* completes and the trigger answers success.
C8_FailureDoesNotStopLaterTables ==
    (RunDone /\ table_mapping # <<>>) =>
        /\ ~failed
        /\ response = "200"
        /\ \A k \in 1..Len(trace) :
              (~trace[k].ok /\ trace[k].table \in Names) =>
                  \A i \in (PairOf(trace[k].table) + 1)..Len(Resolved) :
                      Cardinality(Positions("getColumns", "src", Resolved[i].source))
                          >= Cardinality(SameSourceUpTo(i))

\* ------------------------------------------------------------------ create_table
\* The last two calls are create_table with the same name and columns, and
\* the first of them returned.
Repeated ==
    /\ last.op = "ensureTable"
    /\ prev.op = "ensureTable"
    /\ prev.table = last.table
    /\ prev.cols = last.cols
    /\ ~prev.raised

\* C9: the second of two equal create_table calls leaves the target database
\* as the first left it, and raises nothing unless the session fails it.
C9_EnsureTableIdempotent ==
    Repeated =>
        /\ tgt = last.before
        /\ last.fs = {} => ~last.raised

C9_Witness ==
    /\ Repeated
    /\ ~last.raised
    /\ last.cols = UsersCols
    /\ tgt[last.table].exists
    /\ tgt[last.table].cols = UsersCols

\* C10: create_table with no columns on an open handle raises and sends no
\* CREATE TABLE statement.
C10_EmptyColumnsRejected ==
    (last.op = "ensureTable" /\ last.cols = <<>> /\ last.hbefore.st = "open") =>
        /\ last.raised
        /\ \A k \in 1..Len(last.ev) : last.ev[k].op # "CREATE"

\* ------------------------------------------------------------------ insert_data, no rows
\* C11: insert_data with an empty data sends no statement on the handle,
\* leaves the target database as it was, logs no error and returns, whatever
\* the state of the handle.
C11_EmptyDataIsNoOp ==
    (last.op = "copy" /\ last.data = <<>>) =>
        /\ last.ev = <<>>
        /\ tgt = last.before
        /\ last.errs = 0
        /\ ~last.raised

C11_Witness ==
    /\ last.op = "copy"
    /\ last.data = <<>>
    /\ last.hbefore.st = "open"
    /\ tgt[last.table].exists
    /\ tgt[last.table].rows # <<>>

\* ------------------------------------------------------------------ fetch_all_tables
\* The names the session answers to the listing tag on db.
Listing(db, tag) ==
    NamesOf(PgExec(db, Stmt("SELECT", "", tag, Null, <<>>, FALSE), <<"public">>).rows)

RECURSIVE FirstNonEmpty(_)
FirstNonEmpty(ss) ==
    IF ss = <<>> THEN <<>>
    ELSE IF Head(ss) # <<>> THEN Head(ss)
    ELSE FirstNonEmpty(Tail(ss))

\* C12: fetch_all_tables on an open handle, no statement of it failing,
\* returns the first non-empty of: the primary listing of the schema, the
\* relations visible in any schema, the tables owned by the user.
C12_FirstNonEmptyStrategy ==
    (last.op = "listTables" /\ last.hbefore = Handle("open", FALSE) /\ last.fs = {}) =>
        /\ ~last.raised
        /\ last.value = FirstNonEmpty(<< Listing(last.before, "pg_tables"),
                                         Listing(last.before, "visible"),
                                         Listing(last.before, "owned") >>)

\* ------------------------------------------------------------------ get_table_columns
\* A call of get_table_columns on an open handle, no statement of it failing,
\* for a relation the primary catalog query (of schema public) does not find
\* and a zero-row select resolves.
ColumnOrderFallback(c) ==
    /\ c.op = "getColumns"
    /\ c.hbefore = Handle("open", FALSE)
    /\ c.fs = {}
    /\ c.before[c.table].exists
    /\ ~InPublic(c.before[c.table])

\* C13: such a call returns one descriptor per column of the relation, in the
\* relation's column order, typed with the column's type when
\* information_schema shows the relation and with 'text' when it does not.
C13_ColumnOrderFallback ==
    ColumnOrderFallback(last) =>
        LET t == last.before[last.table] IN
        /\ ~last.raised
        /\ Len(last.value) = Len(t.cols)
        /\ \A i \in 1..Len(t.cols) :
              /\ last.value[i].name = t.cols[i].name
              /\ last.value[i].type = IF IsTable(t) THEN t.cols[i].type ELSE "text"

C13_Witness ==
    /\ ColumnOrderFallback(last)
    /\ ~IsTable(last.before[last.table])
    /\ last.value = << [name |-> "id", type |-> "text"], [name |-> "name", type |-> "text"] >>

\* ------------------------------------------------------------------ execute_query
IsReadQuery(q) == q.verb = "SELECT"
CommitsOf(c) == {k \in 1..Len(c.ev) : c.ev[k].op = "COMMIT"}

\* C14: a call of execute_query that returns gives, for a read query, the
\* rows the session produced for it, in their order; for a write statement
\* it gives an empty sequence, and the statement's effect is in the database
\* with one commit.
C14_StatementsClassified ==
    (last.op = "execute" /\ ~last.raised) =>
        LET a == PgExec(last.before, last.q, last.params) IN
        IF IsReadQuery(last.q)
        THEN last.value = a.rows
        ELSE /\ last.value = <<>>
             /\ src = a.db
             /\ Cardinality(CommitsOf(last)) = 1

\* ------------------------------------------------------------------ rollback
\* The events of trace that are statements sent to a session (the others
\* are the calls of the run, the commits and the rollbacks).
IsStatement(e) ==
    e.op \in {"CREATE", "SELECT *", "LIMIT 0", "INSERT", "pg_tables", "visible", "owned",
              "attributes", "info_columns", "info_type", "search_path", "current_user"}

\* C15: after a statement has failed on a handle, a rollback is made on that
\* handle before any further statement is sent on it.
C15_FailureIsRolledBack ==
    \A k \in 1..Len(trace) :
        (IsStatement(trace[k]) /\ ~trace[k].ok) =>
            \A j \in (k + 1)..Len(trace) :
                (IsStatement(trace[j]) /\ trace[j].side = trace[k].side) =>
                    \E i \in (k + 1)..(j - 1) :
                        trace[i].op = "ROLLBACK" /\ trace[i].side = trace[k].side

\* ------------------------------------------------------------------ lifecycle
\* C16: in any sequence of calls on a DatabaseUtility, a call made after
\* disconnect has closed the connection sends no statement; execute_query
\* then raises the "not established" error; disconnect on a handle never
\* opened or already closed raises nothing and changes nothing.
C16_NoQueryAfterClose ==
    /\ (last.op \in {"execute", "listTables", "getColumns"} /\ last.hbefore.st = "closed")
          => last.ev = <<>>
    /\ (last.op = "execute" /\ last.hbefore.st = "closed")
          => (last.raised /\ last.err = "NotEstablished")
    /\ (last.op = "disconnect" /\ last.hbefore.st # "open")
          => (~last.raised /\ last.ev = <<>> /\ hs["src"] = last.hbefore)

\* ------------------------------------------------------------------ insert_data, missing keys
\* A call of insert_data on an open handle with rows for an existing table
\* of the columns of UsersCols, in which the session fails no statement.
PlainCopy(c) ==
    /\ c.op = "copy"
    /\ c.hbefore = Handle("open", FALSE)
    /\ c.data # <<>>
    /\ IsTable(c.before[c.table])
    /\ c.before[c.table].cols = UsersCols
    /\ c.fs = {}
    /\ ~c.odict

\* The tuple row i of c.data adds to the table: the values of the first
\* row's columns looked up in the row, null for a column the row lacks.
CopiedTuple(c, i) ==
    InsertedTuple(c.before[c.table], c.data[1].keys, RowValues(c.data[i], c.data[1].keys))

\* C17: such a call sends one INSERT per row, each with the row's values of
\* the first row's columns and a null for a key the row lacks; it logs no
\* error and every row is in the table afterwards.
C17_MissingKeyIsNull ==
    PlainCopy(last) =>
        /\ ~last.raised
        /\ last.errs = 0
        /\ Cardinality(InsertsOf(last)) = Len(last.data)
        /\ tgt[last.table].rows =
              last.before[last.table].rows \o [i \in 1..Len(last.data) |-> CopiedTuple(last, i)]

\* ------------------------------------------------------------------ get_table_columns, errors
\* The primary catalog query of the call c threw: conn.cursor() on a handle
\* that is not open, or the statement failed.
PrimaryThrew(c) ==
    /\ c.op = "getColumns"
    /\ \/ c.hbefore.st # "open"
       \/ (c.ev # <<>> /\ c.ev[1].op = "attributes" /\ ~c.ev[1].ok)

\* What the information_schema column query of the call c yielded: the
\* columns the session answered when the query was sent and succeeded,
\* nothing when it failed or could not be sent.
FallbackYield(c) ==
    IF \E k \in 1..Len(c.ev) : c.ev[k].op = "info_columns" /\ c.ev[k].ok
    THEN Descriptors(PgExec(c.before, Stmt("SELECT", "", "info_columns", c.table, <<>>, FALSE),
                            <<"public", c.table>>).rows)
    ELSE <<>>

\* C18: get_table_columns never raises, whatever the handle and whichever
\* statements fail; when its primary query threw, it returns what the
\* information_schema column query yielded.
C18_GetColumnsNeverRaises ==
    /\ last.op = "getColumns" => ~last.raised
    /\ PrimaryThrew(last) => last.value = FallbackYield(last)

C18_Witness ==
    /\ PrimaryThrew(last)
    /\ last.hbefore.st = "open"
    /\ IsTable(last.before[last.table])
    /\ \E k \in 1..Len(last.ev) : last.ev[k].op = "info_columns"
    /\ last.value = <<>>
    /\ last.errs = 3

\* ------------------------------------------------------------------ fetch_all_tables, errors
\* No statement of the call c gave rows: each one failed, or was not sent.
AllStrategiesThrew(c) ==
    \A k \in 1..Len(c.ev) : IsStatement(c.ev[k]) => ~c.ev[k].ok

\* C19: fetch_all_tables never raises, whatever the handle and whichever
\* statements fail, and returns an empty sequence when the handle is not
\* open or every statement it sent failed; a run whose listing came back
\* empty processes no table, does not fail and answers success.
C19_ListTablesNeverRaises ==
    /\ last.op = "listTables" => ~last.raised
    /\ (last.op = "listTables" /\ (last.hbefore.st # "open" \/ AllStrategiesThrew(last)))
          => last.value = <<>>
    /\ \A k \in 1..Len(trace) : trace[k].op = "listTables" => trace[k].ok
    /\ (all_tables.bound /\ all_tables.val = <<>>) =>
          /\ Processed = <<>>
          /\ ~failed
          /\ pc \in {"sync", "disconnect_src", "disconnect_tgt", "done"}
          /\ RunDone => response = "200"

C19_Witness ==
    /\ RunDone
    /\ all_tables = Bound(<<>>)
    /\ \E k \in 1..Len(trace) : trace[k].op = "pg_tables" /\ ~trace[k].ok
    /\ \E n \in Names : IsTable(src[n]) /\ InPublic(src[n])
    /\ response = "200"

\* ------------------------------------------------------------------ insert_data, alternative
\* A call of insert_data on an open handle with rows for an existing table
\* of the columns of UsersCols, whose first loop failed on the INSERT of
\* one row with an error that names odict_iterator.
RelaxedCopy(c) ==
    /\ c.op = "copy"
    /\ c.hbefore = Handle("open", FALSE)
    /\ c.data # <<>>
    /\ IsTable(c.before[c.table])
    /\ c.before[c.table].cols = UsersCols
    /\ Cardinality(c.fs) = 1
    /\ c.odict

\* The rows the first loop sent an INSERT for: those up to the failing one.
FirstLoopSent(c) == CHOOSE i \in c.fs : TRUE

\* The tuple row i of c.data adds to the table when its columns are taken
\* from its own keys.
OwnTuple(c, i) == InsertedTuple(c.before[c.table], c.data[i].keys, c.data[i].vals)

\* C20: in the alternative loop of such a call an INSERT is sent for every
\* row of data, whichever of them fail; every row whose INSERT did not
\* fail is in the table with the values of its own keys; the call returns.
C20_RelaxedModePerRow ==
    RelaxedCopy(last) =>
        /\ ~last.raised
        /\ Cardinality(InsertsOf(last)) = FirstLoopSent(last) + Len(last.data)
        /\ \A i \in 1..Len(last.data) :
              i \notin last.fs2 => OwnTuple(last, i) \in Range(tgt[last.table].rows)

\* ------------------------------------------------------------------ handles in overlapping runs
\* C21: on every handle at most one operation is in flight at any time, and
\* no handle belongs to two runs.
C21_OneOperationPerHandle ==
    /\ \A h \in Handles : inflight[h] <= 1
    /\ \A r1, r2 \in Runs : \A s1, s2 \in Sides :
          HandleOf(r1, s1) = HandleOf(r2, s2) => (r1 = r2 /\ s1 = s2)

C21_Witness ==
    /\ rpc[1] = "copy" /\ waiting[1]
    /\ rpc[2] = "disconnect_tgt" /\ waiting[2]
    /\ inflight[HandleOf(1, "tgt")] = 1
    /\ inflight[HandleOf(2, "tgt")] = 1

\* ------------------------------------------------------------------ insert_data, repeats
\* The tuples the call c added to its table.
AddedBy(c) ==
    SubSeq(tgt[c.table].rows, Len(c.before[c.table].rows) + 1, Len(tgt[c.table].rows))

\* C22: a call of insert_data whose rows differ from one another adds no
\* row to the table twice: the INSERTs that succeed are at most one per row
\* of data, and no two of the tuples added are equal.
C22_NoRowInsertedTwice ==
    (last.op = "copy" /\ IsTable(last.before[last.table])) =>
        /\ Cardinality({k \in InsertsOf(last) : last.ev[k].ok}) <= Len(last.data)
        /\ \A i, j \in 1..Len(AddedBy(last)) : i # j => AddedBy(last)[i] # AddedBy(last)[j]

\* ------------------------------------------------------------------ the target only grows
\* The relation u is the relation t with rows added at its end, if any.
Extends(t, u) ==
    t.exists =>
        /\ u.exists
        /\ u.kind = t.kind /\ u.schema = t.schema /\ u.cols = t.cols
        /\ IsPrefix(t.rows, u.rows)

TargetOnlyGrows == \A n \in Names : Extends(tgt[n], tgt'[n])

\* The second of two completed runs in which no error was logged, over the
\* same source and the same tables listed.
SecondCleanRun ==
    /\ RunCompleted
    /\ nruns = 1
    /\ ~lastRun.failed /\ lastRun.errs = 0
    /\ errors = 0 /\ NoFailure
    /\ lastRun.src = src
    /\ all_tables.bound
    /\ lastRun.all_tables = all_tables

SecondRunAppends ==
    SecondCleanRun =>
        \A k \in 1..Len(all_tables.val) :
            LET n == all_tables.val[k] IN
            /\ tgt[n].rows = lastRun.before[n].rows \o src[n].rows \o src[n].rows
            /\ src[n].rows # <<>> => tgt[n].rows # src[n].rows

\* C23: no step of a run drops a table of the target, changes the columns of
\* one, or removes or changes a row of one: tables only appear and rows are
\* only added at the end; and after a second run over the same source every
\* table listed holds the source's rows twice after what it held before.
C23_TargetOnlyGrows == [][TargetOnlyGrows]_vars /\ []SecondRunAppends

C23_Witness ==
    /\ SecondCleanRun
    /\ all_tables.val = << "a" >>
    /\ lastRun.before["a"].exists
    /\ Len(src["a"].rows) = 2
    /\ Len(tgt["a"].rows) = 5

\* ------------------------------------------------------------------ entries kept
\* The entries of a configuration that have a source and a target.
Complete(entry) == Truthy(entry.source) /\ Truthy(entry.target)
Kept(c) == SelectSeq(c, Complete)

LastTarget(c, s) ==
    LET K == Kept(c)
        i == CHOOSE i \in 1..Len(K) :
                 K[i].source = s /\ \A j \in (i + 1)..Len(K) : K[j].source # s
    IN  K[i].target

MappingIsKept ==
    /\ \A i \in 1..Len(table_mapping) : Complete(table_mapping[i])
    /\ \A i, j \in 1..Len(table_mapping) :
           table_mapping[i].source = table_mapping[j].source => i = j
    /\ {table_mapping[i].source : i \in 1..Len(table_mapping)}
           = {Kept(config)[i].source : i \in 1..Len(Kept(config))}
    /\ \A i \in 1..Len(table_mapping) :
           table_mapping[i].target = LastTarget(config, table_mapping[i].source)

OnlyWildcardToNull == config = << Item(Wildcard, Null) >>

\* C24: the mapping holds exactly the configured entries that have both a
\* source and a target (a source configured twice keeps its last target);
\* when the only entry is the wildcard with a null target the mapping is
\* empty, the run is failing with an error logged, no operation has been
\* called on either database and no table list exists, and when the run has
\* ended it has answered 500 with both handles closed.
C24_IncompleteEntriesDropped ==
    /\ MappingIsKept
    /\ OnlyWildcardToNull =>
           /\ table_mapping = <<>>
           /\ failed /\ errors >= 1
           /\ trace = <<>> /\ ~all_tables.bound
           /\ tgt = tgt0
           /\ RunDone => (response = "500" /\ \A s \in Sides : hs[s].st = "closed")

C24_Witness ==
    /\ OnlyWildcardToNull
    /\ RunDone
    /\ response = "500"
    /\ \A s \in Sides : hs[s].st = "closed"

====
